---- MODULE Spec2Model ----
(***************************************************************************)
(* TicketForge: the template store (category -> template -> body, kept in  *)
(* a JSON file), the main window that edits it, and the bracket-field      *)
(* extraction / substitution of the template edit window.                  *)
(*                                                                         *)
(* Text is a sequence of one-character strings.  A Python dict is a        *)
(* sequence of [key, value] records in insertion order.  Python's None is  *)
(* the reserved value None, which is no category or template name.         *)
(*                                                                         *)
(* Spec follows the main window: an edit window is there the pair it was   *)
(* opened on, and the text of its editor pane, which belongs to the user,  *)
(* is an input of save_changes.  SpecText follows the panes, the input     *)
(* dialog and the clipboard of one edit window.                            *)
(***************************************************************************)
EXTENDS Integers, Sequences, FiniteSets, TLC

VARIABLES
    alive,              \* the process is running (main() constructed the window)
    data,               \* TemplateEditor.data
    disk,               \* data/templates.json: [exists, content]
    current_category,   \* TemplateEditor.current_category
    current_template,   \* TemplateEditor.current_template
    tabs,               \* tab_widget: sequence of [text, items]
    tabIndex,           \* tab_widget.currentIndex(), -1 when there is no tab
    editors,            \* the open TemplateEditWindow objects: [category, template_name]
    editor,             \* the editor pane of the edit window SpecText follows
    preview,            \* its preview pane
    dialog,             \* its last InputDialog: [fields, inputs, accepted]
    clipboard,          \* [set, text]: QApplication.clipboard()
    last,               \* what the slot that ran last did, if it was a store handler
    undo                \* the last new_template, while no other store handler has run

vars == <<alive, data, disk, current_category, current_template, tabs,
          tabIndex, editors, editor, preview, dialog, clipboard, last, undo>>

None == "<None>"

(***************************************************************************)
(* Bounds of the model.                                                    *)
(***************************************************************************)
MaxEditors == 1     \* edit windows open at the same time
MaxTemplates == 2   \* templates in the document
MaxLen == 5         \* length of the enumerated template bodies

CategoryNames == {"General", "Work"}
TemplateNames == {"t1", "t2"}

\* "Enter your template here.\nUse [field_name] for input fields."
DefaultText ==
    <<"E", "n", "t", "e", "r", " ", "y", "o", "u", "r", " ", "t", "e", "m",
      "p", "l", "a", "t", "e", " ", "h", "e", "r", "e", ".", "\n", "U", "s",
      "e", " ", "[", "f", "i", "e", "l", "d", "_", "n", "a", "m", "e", "]",
      " ", "f", "o", "r", " ", "i", "n", "p", "u", "t", " ", "f", "i", "e",
      "l", "d", "s", ".">>

\* "Hi [name]!"
HiName == <<"H", "i", " ", "[", "n", "a", "m", "e", "]", "!">>

\* The bodies the main window's model stores and its edit windows type.
Texts == {DefaultText, HiName}

(***************************************************************************)
(* Python str operations.                                                  *)
(***************************************************************************)
SetMin(S) == CHOOSE x \in S : \A y \in S : x <= y

\* str.find(ch, start): the lowest 0-based index >= start holding ch, or -1.
Find(s, ch, start) ==
    LET hits == {i \in start..(Len(s) - 1) : s[i + 1] = ch}
    IN  IF hits = {} THEN -1 ELSE SetMin(hits)

\* s[a:b] for 0 <= a, b <= len(s).
Slice(s, a, b) == SubSeq(s, a + 1, b)

StartsWith(s, p) == Len(p) <= Len(s) /\ SubSeq(s, 1, Len(p)) = p

\* str.replace(old, new) for a non-empty old: every non-overlapping occurrence,
\* left to right.
RECURSIVE Replace(_, _, _)
Replace(s, old, new) ==
    IF Len(s) < Len(old) THEN s
    ELSE IF StartsWith(s, old)
         THEN new \o Replace(SubSeq(s, Len(old) + 1, Len(s)), old, new)
         ELSE <<Head(s)>> \o Replace(Tail(s), old, new)

\* A placeholder that keeps the brackets inside the angle brackets.
Angled_bracketed(field) == <<"<", "[">> \o field \o <<"]", ">">>

\* f'[{field}]' and f'<{field}>'
Bracketed(field) == <<"[">> \o field \o <<"]">>
Angled(field) == <<"<">> \o field \o <<">">>

(***************************************************************************)
(* TemplateEditWindow.get_template_fields and its copy in TemplateEditor.  *)
(***************************************************************************)
RECURSIVE FieldsLoop(_, _, _)
FieldsLoop(template_text, start, fields) ==
    LET s == Find(template_text, "[", start)
    IN  IF s = -1 THEN fields
        ELSE LET end == Find(template_text, "]", s)
             IN  IF end = -1 THEN fields
                 ELSE FieldsLoop(template_text, end + 1,
                                 Append(fields, Slice(template_text, s + 1, end)))

\* A scan that starts at index 1.
get_template_fields_from_1(template_text) == FieldsLoop(template_text, 1, <<>>)

get_template_fields(template_text) == FieldsLoop(template_text, 0, <<>>)

RECURSIVE EditorFieldsLoop(_, _, _)
EditorFieldsLoop(template_text, start, fields) ==
    LET s == Find(template_text, "[", start)
    IN  IF s = -1 THEN fields
        ELSE LET end == Find(template_text, "]", s)
             IN  IF end = -1 THEN fields
                 ELSE EditorFieldsLoop(template_text, end + 1,
                                       Append(fields, Slice(template_text, s + 1, end)))

TemplateEditor_get_template_fields(template_text) ==
    EditorFieldsLoop(template_text, 0, <<>>)

(***************************************************************************)
(* update_preview: [field] -> <field>, field by field.                     *)
(***************************************************************************)
RECURSIVE PreviewLoop(_, _)
PreviewLoop(preview_text, fields) ==
    IF fields = <<>> THEN preview_text
    ELSE PreviewLoop(Replace(preview_text, Bracketed(Head(fields)), Angled(Head(fields))),
                     Tail(fields))

update_preview(template_text) ==
    PreviewLoop(template_text, get_template_fields(template_text))

(***************************************************************************)
(* The fill loop of copy_to_clipboard; inputs maps a field to the text of  *)
(* its line edit.                                                          *)
(***************************************************************************)
RECURSIVE FillLoop(_, _, _)
FillLoop(filled_text, fields, inputs) ==
    IF fields = <<>> THEN filled_text
    ELSE FillLoop(Replace(filled_text, Bracketed(Head(fields)), inputs[Head(fields)]),
                  Tail(fields), inputs)

\* InputDialog.init_ui: one line edit per distinct field (a repeated field
\* overwrites its entry).
InputFields(fields) == {fields[i] : i \in DOMAIN fields}

(***************************************************************************)
(* Python dict, insertion-ordered.                                         *)
(***************************************************************************)
Keys(d) == {d[i].key : i \in DOMAIN d}
Has(d, k) == k \in Keys(d)
KeyIndex(d, k) == CHOOSE i \in DOMAIN d : d[i].key = k
Get(d, k) == d[KeyIndex(d, k)].value
\* d[k] = v: an existing key keeps its place, a new key goes last.
DictSet(d, k, v) ==
    IF Has(d, k) THEN [d EXCEPT ![KeyIndex(d, k)].value = v]
    ELSE Append(d, [key |-> k, value |-> v])
\* A del that removes the first key of d.
DictDel_first(d, k) == Tail(d)

\* del d[k] for a key of d.
DictDel(d, k) ==
    LET i == KeyIndex(d, k)
    IN  SubSeq(d, 1, i - 1) \o SubSeq(d, i + 1, Len(d))
KeyList(d) == [i \in DOMAIN d |-> d[i].key]

\* The number of templates of a document.
RECURSIVE TemplateCount(_)
TemplateCount(d) ==
    IF d = <<>> THEN 0 ELSE Len(Head(d).value) + TemplateCount(Tail(d))

\* self.data[category][name] = body, for a category of the document.
SetBody(d, category, name, body) ==
    DictSet(d, category, DictSet(Get(d, category), name, body))
\* del self.data[category][name]
DelBody(d, category, name) ==
    DictSet(d, category, DictDel(Get(d, category), name))

(***************************************************************************)
(* The JSON file.  json.dump writes the document as a token stream (object *)
(* open/close, keys, string values); json.load parses one back, a repeated *)
(* key keeping its first place and its last value, and raises on a stream  *)
(* that is no complete document.                                           *)
(***************************************************************************)
TokOpen == [t |-> "{", k |-> "", v |-> <<>>]
TokClose == [t |-> "}", k |-> "", v |-> <<>>]
TokKey(name) == [t |-> "key", k |-> name, v |-> <<>>]
TokStr(body) == [t |-> "str", k |-> "", v |-> body]

RECURSIVE DumpTemplates(_)
DumpTemplates(c) ==
    IF c = <<>> THEN <<>>
    ELSE <<TokKey(Head(c).key), TokStr(Head(c).value)>> \o DumpTemplates(Tail(c))

RECURSIVE DumpCategories(_)
DumpCategories(d) ==
    IF d = <<>> THEN <<>>
    ELSE <<TokKey(Head(d).key), TokOpen>> \o DumpTemplates(Head(d).value)
         \o <<TokClose>> \o DumpCategories(Tail(d))

\* json.dump(self.data, f, indent=4)
JsonDump(d) == <<TokOpen>> \o DumpCategories(d) \o <<TokClose>>

\* depth 0: before the document, 1: in the document, 2: in category cat,
\* 3: after the document.
RECURSIVE JsonParse(_, _, _, _, _)
JsonParse(toks, i, depth, cat, doc) ==
    IF i > Len(toks) THEN [ok |-> depth = 3, doc |-> doc]
    ELSE LET tk == toks[i]
             more == i + 1 <= Len(toks)
         IN  IF depth = 0 /\ tk.t = "{"
             THEN JsonParse(toks, i + 1, 1, cat, doc)
             ELSE IF depth = 1 /\ tk.t = "key" /\ more /\ toks[i + 1].t = "{"
             THEN JsonParse(toks, i + 2, 2, tk.k, DictSet(doc, tk.k, <<>>))
             ELSE IF depth = 1 /\ tk.t = "}"
             THEN JsonParse(toks, i + 1, 3, cat, doc)
             ELSE IF depth = 2 /\ tk.t = "key" /\ more /\ toks[i + 1].t = "str"
             THEN JsonParse(toks, i + 2, 2, cat, SetBody(doc, cat, tk.k, toks[i + 1].v))
             ELSE IF depth = 2 /\ tk.t = "}"
             THEN JsonParse(toks, i + 1, 1, cat, doc)
             ELSE [ok |-> FALSE, doc |-> <<>>]

\* json.load(f): [ok, doc]; ok is FALSE where json.load raises.
JsonLoad(content) == JsonParse(content, 1, 0, "", <<>>)

NoFile == [exists |-> FALSE, content |-> <<>>]
File(content) == [exists |-> TRUE, content |-> content]

\* save_templates: the outcomes of open(..., 'w') and json.dump.  The write
\* succeeds; or open raises and the file is as it was; or open has truncated
\* the file and the write raises part-way, leaving a proper prefix.
\* A write that raises part-way leaves a proper prefix of the stream; the model
\* keeps the two extremes: nothing flushed, and all but the closing token.
TornLengths(content) == {0, Len(content) - 1}

\* A save_templates that returns without writing.
save_templates_unwritten(d, file) == {[ok |-> TRUE, file |-> file]}

save_templates(d, file) ==
    LET content == JsonDump(d)
    IN  {[ok |-> TRUE, file |-> File(content)], [ok |-> FALSE, file |-> file]}
        \cup {[ok |-> FALSE, file |-> File(SubSeq(content, 1, n))] :
                 n \in TornLengths(content)}

(***************************************************************************)
(* The tab widget and the two selection slots.  u is the window's          *)
(* selection state [tabs, idx, cc, ct].                                    *)
(***************************************************************************)
UI(t, i, cc, ct) == [tabs |-> t, idx |-> i, cc |-> cc, ct |-> ct]

\* A category_changed that keeps current_template.
category_changed_keeps_template(u, index) ==
    IF index >= 0 THEN [u EXCEPT !.cc = u.tabs[index + 1].text] ELSE u

\* category_changed(index), the slot of tab_widget.currentChanged
category_changed(u, index) ==
    IF index >= 0
    THEN [u EXCEPT !.cc = u.tabs[index + 1].text, !.ct = None]
    ELSE u

\* template_selected(item), the slot of itemClicked
template_selected(u, name) ==
    [u EXCEPT !.ct = name, !.cc = u.tabs[u.idx + 1].text]

\* QTabWidget.removeTab(0): the tab right of a removed current tab becomes
\* current, a current tab further right moves down by one, and currentChanged
\* is emitted with the new index (-1 once no tab is left).
RemoveFirstTab(u) ==
    LET rest == Tail(u.tabs)
        idx == IF u.idx = 0 THEN (IF rest = <<>> THEN -1 ELSE 0) ELSE u.idx - 1
    IN  category_changed([u EXCEPT !.tabs = rest, !.idx = idx], idx)

\* tab_widget.clear()
RECURSIVE ClearTabs(_)
ClearTabs(u) == IF u.tabs = <<>> THEN u ELSE ClearTabs(RemoveFirstTab(u))

\* tab_widget.addTab(list_widget, category): the first tab added becomes
\* current and currentChanged(0) is emitted.
AddTab(u, category, items) ==
    LET t == Append(u.tabs, [text |-> category, items |-> items])
    IN  IF u.tabs = <<>>
        THEN category_changed([u EXCEPT !.tabs = t, !.idx = 0], 0)
        ELSE [u EXCEPT !.tabs = t]

RECURSIVE AddTabs(_, _)
AddTabs(u, d) ==
    IF d = <<>> THEN u
    ELSE AddTabs(AddTab(u, Head(d).key, KeyList(Head(d).value)), Tail(d))

update_template_list(u, d) == AddTabs(ClearTabs(u), d)

(***************************************************************************)
(* State of the program.                                                   *)
(***************************************************************************)
Cur == UI(tabs, tabIndex, current_category, current_template)

\* A new_template that returned: its key and the document it started from.
NoUndo == [category |-> "", name |-> "", before |-> <<>>]

\* What a store handler was, its arguments and how it ended ("ok", "warning",
\* "KeyError", "OSError", "JSONDecodeError"); for a delete_template of the
\* template that the new_template before it created, that new_template.
Handler(op, category, name, new_name, outcome) ==
    [op |-> op, category |-> category, name |-> name, new_name |-> new_name,
     outcome |-> outcome,
     undone |-> IF op = "delete_template" /\ undo.category = category
                   /\ undo.name = name
                THEN undo ELSE NoUndo]

NoHandler ==
    [op |-> "", category |-> "", name |-> "", new_name |-> "", outcome |-> "",
     undone |-> NoUndo]
NoDialog == [fields |-> <<>>, inputs |-> <<>>, accepted |-> FALSE]
NoClipboard == [set |-> FALSE, text |-> <<>>]

\* The default document of load_templates.
DefaultData == <<[key |-> "General", value |-> <<>>]>>

\* A templates.json left by an earlier run.
InitDocs ==
    {<<[key |-> "General", value |-> <<[key |-> "t1", value |-> HiName]>>],
       [key |-> "Work", value |-> <<[key |-> "t1", value |-> DefaultText]>>]>>}

\* The handler returns: the window lives on with document d and selection u.
Returned(d, file, u, ed, h) ==
    /\ alive' = TRUE
    /\ data' = d
    /\ disk' = file
    /\ tabs' = u.tabs
    /\ tabIndex' = u.idx
    /\ current_category' = u.cc
    /\ current_template' = u.ct
    /\ editors' = ed
    /\ last' = h
    /\ undo' = IF h = NoHandler THEN undo
               ELSE IF h.op = "new_template" /\ h.outcome = "ok"
               THEN [category |-> h.category, name |-> h.name, before |-> data]
               ELSE NoUndo
    /\ UNCHANGED <<editor, preview, dialog, clipboard>>

\* The handler raises: PyQt ends the process on an exception that leaves a
\* slot.  data keeps the document the window held at that point; the windows
\* are gone.
Raised(d, file, h) ==
    /\ alive' = FALSE
    /\ data' = d
    /\ disk' = file
    /\ tabs' = <<>>
    /\ tabIndex' = -1
    /\ current_category' = None
    /\ current_template' = None
    /\ editors' = {}
    /\ editor' = <<>>
    /\ preview' = <<>>
    /\ dialog' = NoDialog
    /\ last' = h
    /\ undo' = NoUndo
    /\ UNCHANGED clipboard

\* self.save_templates() and the code after it in a handler that has changed
\* self.data to d: u is the selection the rest of the handler leaves.
Commit(d, u, h) ==
    LET saved == save_templates(d, disk)
    IN  \E w \in saved :
            IF w.ok
            THEN Returned(d, w.file, u, editors, [h EXCEPT !.outcome = "ok"])
            ELSE Raised(d, w.file, [h EXCEPT !.outcome = "OSError"])

\* TemplateEditor.__init__ and load_templates over the file.
Construct(file) ==
    IF file.exists /\ ~JsonLoad(file.content).ok
    THEN Raised(<<>>, file,
                Handler("load_templates", "", "", "", "JSONDecodeError"))
    ELSE LET d == IF file.exists THEN JsonLoad(file.content).doc ELSE DefaultData
         IN  Returned(d, file, update_template_list(UI(<<>>, -1, None, None), d), {},
                      Handler("load_templates", "", "", "", "ok"))

Init ==
    \E file \in {NoFile} \cup {File(JsonDump(d)) : d \in InitDocs} :
        LET u == update_template_list(UI(<<>>, -1, None, None),
                                      IF file.exists THEN JsonLoad(file.content).doc
                                      ELSE DefaultData)
        IN  /\ alive = TRUE
            /\ disk = file
            /\ data = (IF file.exists THEN JsonLoad(file.content).doc ELSE DefaultData)
            /\ tabs = u.tabs
            /\ tabIndex = u.idx
            /\ current_category = u.cc
            /\ current_template = u.ct
            /\ editors = {}
            /\ editor = <<>>
            /\ preview = <<>>
            /\ dialog = NoDialog
            /\ clipboard = NoClipboard
            /\ last = NoHandler
            /\ undo = NoUndo

\* main(): the program is started again after it ended.
main ==
    /\ ~alive
    /\ Construct(disk)

(***************************************************************************)
(* Slots of the main window.                                               *)
(***************************************************************************)
\* The user picks tab i: currentChanged(i).
TabClicked(i) ==
    /\ alive
    /\ i \in 0..(Len(tabs) - 1)
    /\ i # tabIndex
    /\ LET u == category_changed([Cur EXCEPT !.idx = i], i)
       IN  Returned(data, disk, u, editors, NoHandler)

CurrentItems == IF tabIndex >= 0 THEN tabs[tabIndex + 1].items ELSE <<>>

\* The user clicks item j of the shown list: itemClicked.
TemplateClicked(j) ==
    /\ alive
    /\ j \in DOMAIN CurrentItems
    /\ Returned(data, disk, template_selected(Cur, CurrentItems[j]), editors, NoHandler)

\* A new_category without the check for an existing name.
new_category_unchecked(name, ok) ==
    /\ alive
    /\ IF ~(ok /\ name # "") THEN UNCHANGED vars
       ELSE LET d == DictSet(data, name, <<>>)
            IN  Commit(d, update_template_list(Cur, d),
                       Handler("new_category", "", name, "", ""))

\* new_category with the dialog's (name, ok)
new_category(name, ok) ==
    /\ alive
    /\ IF ~(ok /\ name # "") THEN UNCHANGED vars
       ELSE LET h == Handler("new_category", "", name, "", "")
            IN  IF Has(data, name)
                THEN Returned(data, disk, Cur, editors, [h EXCEPT !.outcome = "warning"])
                ELSE LET d == DictSet(data, name, <<>>)
                     IN  Commit(d, update_template_list(Cur, d), h)

\* delete_category with the confirmation's answer
delete_category(yes) ==
    /\ alive
    /\ IF ~(current_category # None /\ yes) THEN UNCHANGED vars
       ELSE LET h == Handler("delete_category", current_category, "", "", "")
            IN  IF ~Has(data, current_category)
                THEN Raised(data, disk, [h EXCEPT !.outcome = "KeyError"])
                ELSE LET d == DictDel(data, current_category)
                     IN  Commit(d, [update_template_list(Cur, d)
                                       EXCEPT !.cc = None, !.ct = None], h)

\* new_template with the dialog's (name, ok)
new_template(name, ok) ==
    /\ alive
    /\ TemplateCount(data) < MaxTemplates
    /\ LET h == Handler("new_template", current_category, name, "", "")
       IN  IF current_category = None
           THEN Returned(data, disk, Cur, editors,
                         Handler("new_template", current_category, "", "", "warning"))
           ELSE IF ~(ok /\ name # "") THEN UNCHANGED vars
           ELSE IF ~Has(data, current_category)
           THEN Raised(data, disk, [h EXCEPT !.outcome = "KeyError"])
           ELSE IF Has(Get(data, current_category), name)
           THEN Returned(data, disk, Cur, editors, [h EXCEPT !.outcome = "warning"])
           ELSE LET d == SetBody(data, current_category, name, DefaultText)
                    u == update_template_list(Cur, d)
                    found == \E j \in DOMAIN u.tabs[u.idx + 1].items :
                                 u.tabs[u.idx + 1].items[j] = name
                IN  Commit(d, IF found THEN template_selected(u, name) ELSE u, h)

\* delete_template with the confirmation's answer
delete_template(yes) ==
    /\ alive
    /\ IF ~(current_template # None /\ current_category # None /\ yes)
       THEN UNCHANGED vars
       ELSE LET h == Handler("delete_template", current_category, current_template,
                             "", "")
            IN  IF ~Has(data, current_category)
                   \/ ~Has(Get(data, current_category), current_template)
                THEN Raised(data, disk, [h EXCEPT !.outcome = "KeyError"])
                ELSE LET d == DelBody(data, current_category, current_template)
                     IN  Commit(d, [update_template_list(Cur, d) EXCEPT !.ct = None], h)

\* rename_template(item) with the dialog's (new_name, ok)
rename_template(old_name, new_name, ok) ==
    /\ alive
    /\ IF current_category = None \/ ~(ok /\ new_name # "" /\ new_name # old_name)
       THEN UNCHANGED vars
       ELSE LET h == Handler("rename_template", current_category, old_name, new_name,
                             "")
            IN  IF ~Has(data, current_category)
                   \/ ~Has(Get(data, current_category), old_name)
                THEN Raised(data, disk, [h EXCEPT !.outcome = "KeyError"])
                ELSE LET c == Get(data, current_category)
                         d == DictSet(data, current_category,
                                      DictSet(DictDel(c, old_name), new_name,
                                              Get(c, old_name)))
                     IN  Commit(d, update_template_list(Cur, d), h)

\* show_template_context_menu: a right click on item j of the shown list and
\* the menu entry chosen ("rename", "delete" or none).
show_template_context_menu(j, choice, new_name, ok) ==
    /\ alive
    /\ j \in DOMAIN CurrentItems
    /\ CASE choice = "rename" -> rename_template(CurrentItems[j], new_name, ok)
         [] choice = "delete" -> delete_template(ok)
         [] OTHER -> UNCHANGED vars

\* A double click on item j of the shown list: itemClicked, then
\* itemDoubleClicked runs edit_template.
edit_template(j) ==
    /\ alive
    /\ j \in DOMAIN CurrentItems
    /\ Cardinality(editors) < MaxEditors
    /\ LET u == template_selected(Cur, CurrentItems[j])
           template_name == CurrentItems[j]
           category == tabs[tabIndex + 1].text
       IN  IF ~Has(data, category) \/ ~Has(Get(data, category), template_name)
           THEN Raised(data, disk,
                       Handler("edit_template", category, template_name, "",
                               "KeyError"))
           ELSE Returned(data, disk, u,
                         editors \cup {[category |-> category,
                                        template_name |-> template_name]},
                         NoHandler)

(***************************************************************************)
(* Slots of a template edit window w.                                      *)
(***************************************************************************)
\* update_template(category, template_name, new_text)
update_template(category, template_name, new_text) ==
    LET h == Handler("update_template", category, template_name, "", "")
    IN  IF ~Has(data, category)
        THEN Raised(data, disk, [h EXCEPT !.outcome = "KeyError"])
        ELSE Commit(SetBody(data, category, template_name, new_text), Cur, h)

\* save_changes with the editor pane holding template_text: the window's
\* parent is the TemplateEditor.
save_changes(w, template_text) ==
    /\ alive
    /\ w \in editors
    /\ IF Has(data, w.category)
       THEN Has(Get(data, w.category), w.template_name)
            \/ TemplateCount(data) < MaxTemplates
       ELSE TRUE
    /\ update_template(w.category, w.template_name, template_text)

\* The user closes the window.
CloseEditor(w) ==
    /\ alive
    /\ w \in editors
    /\ Returned(data, disk, Cur, editors \ {w}, NoHandler)

\* copy_to_clipboard: inputs are the texts typed into the dialog's line edits,
\* accepted is dialog.exec().
copy_to_clipboard(inputs, accepted) ==
    /\ alive
    /\ editors # {}
    /\ LET template_text == editor
           fields == get_template_fields(template_text)
       IN  IF fields # <<>>
           THEN /\ dialog' = [fields |-> fields, inputs |-> inputs, accepted |-> accepted]
                /\ clipboard' = IF accepted
                                THEN [set |-> TRUE,
                                      text |-> FillLoop(template_text, fields, inputs)]
                                ELSE clipboard
           ELSE /\ clipboard' = [set |-> TRUE, text |-> template_text]
                /\ UNCHANGED dialog
    /\ UNCHANGED <<alive, data, disk, current_category, current_template, tabs,
                   tabIndex, editors, editor, preview, last, undo>>

(***************************************************************************)
(* The main window and its edit windows.                                   *)
(***************************************************************************)
\* What QInputDialog.getText returns: (name, True) on OK, ("", False) on Cancel.
Typed(S) == {[name |-> n, ok |-> TRUE] : n \in S \cup {""}}
            \cup {[name |-> "", ok |-> FALSE]}

\* The context menu's outcomes on an item: an entry and its dialog's answer.
MenuChoices ==
    {[choice |-> "rename", name |-> t.name, ok |-> t.ok] : t \in Typed(TemplateNames)}
    \cup {[choice |-> "delete", name |-> "", ok |-> yes] : yes \in BOOLEAN}
    \cup {[choice |-> "", name |-> "", ok |-> FALSE]}

Next ==
    \/ main
    \/ \E i \in 0..(Len(tabs) - 1) : TabClicked(i)
    \/ \E j \in DOMAIN CurrentItems : TemplateClicked(j)
    \/ \E t \in Typed(CategoryNames) : new_category(t.name, t.ok)
    \/ \E yes \in BOOLEAN : delete_category(yes)
    \/ \E t \in Typed(TemplateNames) : new_template(t.name, t.ok)
    \/ \E yes \in BOOLEAN : delete_template(yes)
    \/ \E j \in DOMAIN CurrentItems, m \in MenuChoices :
          show_template_context_menu(j, m.choice, m.name, m.ok)
    \/ \E j \in DOMAIN CurrentItems : edit_template(j)
    \/ \E w \in editors, t \in Texts : save_changes(w, t)
    \/ \E w \in editors : CloseEditor(w)

Spec == Init /\ [][Next]_vars

(***************************************************************************)
(* One edit window over any text: the file holds one template with an      *)
(* arbitrary body, the user opens it and, without editing it, fills it     *)
(* out.                                                                    *)
(***************************************************************************)
Alphabet == {"[", "]", "a", "b"}

\* "Hello [name], welcome to [place].", "unterminated [field", "[a][b]",
\* "[a[b]c]", "[a][[a]]"
ExampleBodies ==
    {HiName, DefaultText,
     <<"H", "e", "l", "l", "o", " ", "[", "n", "a", "m", "e", "]", ",", " ", "w",
       "e", "l", "c", "o", "m", "e", " ", "t", "o", " ", "[", "p", "l", "a", "c",
       "e", "]", ".">>,
     <<"u", "n", "t", "e", "r", "m", "i", "n", "a", "t", "e", "d", " ", "[", "f",
       "i", "e", "l", "d">>,
     <<"[", "a", "]", "[", "b", "]">>,
     <<"[", "a", "[", "b", "]", "c", "]">>,
     <<"[", "a", "]", "[", "[", "a", "]", "]">>}

Bodies == UNION {[1..n -> Alphabet] : n \in 0..MaxLen} \cup ExampleBodies

\* What the user types into a line edit: "", "x", "[b]", "Ada".
FillValues == {<<>>, <<"x">>, <<"[", "b", "]">>, <<"A", "d", "a">>}

\* The dialog's answers: accepted with any texts typed, or closed untouched.
DialogAnswers(fields) ==
    {[inputs |-> i, accepted |-> TRUE] : i \in [InputFields(fields) -> FillValues]}
    \cup {[inputs |-> [f \in InputFields(fields) |-> <<>>], accepted |-> FALSE]}

\* TemplateEditWindow.__init__ and init_ui on template_text, for any text of a
\* template of the file.
InitText ==
    \E template_text \in Bodies :
        LET d == <<[key |-> "General",
                    value |-> <<[key |-> "t1", value |-> template_text]>>]>>
            u == update_template_list(UI(<<>>, -1, None, None), d)
        IN  /\ alive = TRUE
            /\ disk = File(JsonDump(d))
            /\ data = d
            /\ tabs = u.tabs
            /\ tabIndex = u.idx
            /\ current_category = "General"
            /\ current_template = "t1"
            /\ editors = {[category |-> "General", template_name |-> "t1"]}
            /\ editor = template_text
            /\ preview = update_preview(template_text)
            /\ dialog = NoDialog
            /\ clipboard = NoClipboard
            /\ last = NoHandler
            /\ undo = NoUndo

NextText ==
    \E a \in DialogAnswers(get_template_fields(editor)) :
        copy_to_clipboard(a.inputs, a.accepted)

SpecText == InitText /\ [][NextText]_vars

(***************************************************************************)
(* Properties of the store (Spec).                                         *)
(***************************************************************************)
\* The file holds document d: json.load of it gives d; with no file,
\* load_templates gives the default document.
PersistedIs(d, file) ==
    IF file.exists THEN JsonLoad(file.content) = [ok |-> TRUE, doc |-> d]
    ELSE d = DefaultData

HasTemplate(d, category, name) ==
    IF Has(d, category) THEN Has(Get(d, category), name) ELSE FALSE

\* C1: whenever a store operation has returned (the window is alive, every
\* write of this run of the program succeeded), the file holds the in-memory
\* document; while there is no file, no mutation has been made and the
\* document is the default one.
C1_persisted_equals_memory == alive => PersistedIs(data, disk)

\* A rename has returned after its write, and the file holds the new document.
C1_witness ==
    /\ alive
    /\ last.op = "rename_template"
    /\ last.outcome = "ok"
    /\ disk.exists
    /\ HasTemplate(data, last.category, last.new_name)
    /\ JsonLoad(disk.content).doc = data

\* C2: a store operation whose write fails leaves the in-memory document as it
\* was before the operation, and the file still holds that document.
C2_failed_write_leaves_document ==
    [][last'.outcome = "OSError" => data' = data /\ PersistedIs(data', disk')]_vars

\* C3: renaming a template to another name that is already in the category
\* leaves the document and the file unchanged (stated for the renames whose
\* write does not fail).
C3_rename_to_existing_name ==
    [][(last'.op = "rename_template" /\ last'.new_name # last'.name
          /\ last'.outcome # "OSError"
          /\ HasTemplate(data, last'.category, last'.new_name))
       => data' = data /\ disk' = disk]_vars

\* C4: update_template on a category or template that is no longer in the
\* document leaves the document and the file unchanged; it never creates a
\* template entry (stated for the updates whose write does not fail).
C4_update_of_missing_template ==
    [][(last'.op = "update_template" /\ last'.outcome # "OSError"
          /\ ~HasTemplate(data, last'.category, last'.name))
       => data' = data /\ disk' = disk]_vars

\* C5: new_category with a name of the document warns and leaves the document
\* and the file as they were; with a new name it appends exactly one empty
\* category, changes no other category, and the file it has written holds the
\* new document.
C5_new_category ==
    [][last'.op = "new_category" =>
         IF Has(data, last'.name)
         THEN last'.outcome = "warning" /\ data' = data /\ disk' = disk
         ELSE /\ data' = Append(data, [key |-> last'.name, value |-> <<>>])
              /\ last'.outcome = "ok" => PersistedIs(data', disk')]_vars

\* new_category was given the name of a category that holds templates, and
\* the category still holds them.
C5_witness ==
    /\ last.op = "new_category"
    /\ last.outcome = "warning"
    /\ Has(data, last.name)
    /\ Get(data, last.name) # <<>>
    /\ PersistedIs(data, disk)

\* C6: new_template of a name absent from its category, followed by
\* delete_template of the same category and name with no store operation in
\* between, leaves the document, in memory and in the file, equal to the
\* document before the new_template.
C6_new_then_delete_template ==
    (last.op = "delete_template" /\ last.outcome = "ok" /\ last.undone # NoUndo)
    => /\ data = last.undone.before
       /\ PersistedIs(last.undone.before, disk)

\* A template was created next to an existing one and then deleted.
C6_witness ==
    /\ last.op = "delete_template"
    /\ last.outcome = "ok"
    /\ last.undone # NoUndo
    /\ Has(data, last.category)
    /\ Get(data, last.category) # <<>>
    /\ ~HasTemplate(data, last.category, last.name)

(***************************************************************************)
(* Properties of the texts (SpecText).                                     *)
(***************************************************************************)
\* The positions of s at which a field opens: a '[' with a ']' after it, such
\* that every '[' before it has a ']' in between.
FirstClose(s, i) == SetMin({j \in (i + 1)..(Len(s) - 1) : s[j + 1] = "]"})

ScanStarts(s) ==
    {i \in 0..(Len(s) - 1) :
        /\ s[i + 1] = "["
        /\ \E j \in (i + 1)..(Len(s) - 1) : s[j + 1] = "]"
        /\ \A k \in 0..(i - 1) :
              s[k + 1] = "[" => \E j \in (k + 1)..(i - 1) : s[j + 1] = "]"}

\* The n-th such position, and the texts between each and the first ']' after
\* it, in the order of the text.
NthStart(s, n) ==
    CHOOSE i \in ScanStarts(s) : Cardinality({k \in ScanStarts(s) : k < i}) = n - 1

ScanFields(s) ==
    [n \in 1..Cardinality(ScanStarts(s)) |->
        SubSeq(s, NthStart(s, n) + 2, FirstClose(s, NthStart(s, n)))]

\* C7: for every template body, both get_template_fields return the texts
\* between each next '[' and the first ']' after it, in order of appearance,
\* duplicates kept; the dialog is built over that sequence.
C7_get_template_fields ==
    /\ get_template_fields(editor) = ScanFields(editor)
    /\ TemplateEditor_get_template_fields(editor) = ScanFields(editor)
    /\ dialog # NoDialog => dialog.fields = ScanFields(editor)

\* The dialog was built for "[a[b]c]": its one field is "a[b".
C7_witness ==
    /\ editor = <<"[", "a", "[", "b", "]", "c", "]">>
    /\ dialog.fields = <<<<"a", "[", "b">>>>

\* No field of the body has a '[' in its name.
PlainFields(template_text) ==
    \A i \in DOMAIN get_template_fields(template_text) :
        \A j \in DOMAIN get_template_fields(template_text)[i] :
            get_template_fields(template_text)[i][j] # "["

\* C8 as stated: update_preview of the preview of any body is that preview.
C8_preview_idempotent == update_preview(preview) = preview

\* C8: for every template body none of whose field names holds a '[',
\* update_preview of its preview is that preview.
C8_preview_idempotent_plain_fields ==
    PlainFields(editor) => update_preview(preview) = preview

\* The preview of "Hi [name]!" is "Hi <name>!".
C8_witness ==
    /\ editor = HiName
    /\ PlainFields(editor)
    /\ preview = <<"H", "i", " ", "<", "n", "a", "m", "e", ">", "!">>

\* The body with each field found by the scan, brackets included, replaced in
\* place by the text typed for it.
RECURSIVE FilledInPlace(_, _, _)
FilledInPlace(s, start, inputs) ==
    LET open == Find(s, "[", start)
        close == Find(s, "]", open)
    IN  IF open = -1 \/ close = -1 THEN Slice(s, start, Len(s))
        ELSE Slice(s, start, open) \o inputs[Slice(s, open + 1, close)]
             \o FilledInPlace(s, close + 1, inputs)

\* C9: the text copy_to_clipboard puts on the clipboard is the body with each
\* extracted field occurrence replaced by the text typed for that field, the
\* typed text appearing as typed.
C9_filled_in_place ==
    (clipboard.set /\ (dialog.accepted \/ get_template_fields(editor) = <<>>))
    => clipboard.text = FilledInPlace(editor, 0, dialog.inputs)

IsSubstring(f, g) ==
    \E i \in 0..(Len(g) - Len(f)) : SubSeq(g, i + 1, i + Len(f)) = f

\* No field name is part of another field name.
NoFieldInsideAnother(fields) ==
    \A f, g \in InputFields(fields) : f # g => ~IsSubstring(f, g)

FieldOrders(n) == {p \in [1..n -> 1..n] : \A i, j \in 1..n : p[i] = p[j] => i = j}

\* C10: for a body no field name of which is part of another, and any texts
\* typed, the fill loop run over the fields in any order gives the text put
\* on the clipboard.
C10_fill_order_independent ==
    (dialog.accepted /\ NoFieldInsideAnother(dialog.fields))
    => \A p \in FieldOrders(Len(dialog.fields)) :
          FillLoop(editor, [i \in DOMAIN dialog.fields |-> dialog.fields[p[i]]],
                   dialog.inputs) = clipboard.text

(***************************************************************************)
(* Properties of the selection (Spec).                                     *)
(***************************************************************************)
\* C11: while the window is alive, current_category is None or a category of
\* the document, and current_template is None or a template of the document
\* under current_category; delete_template and rename_template never end in
\* a KeyError.
C11_selection_in_document ==
    /\ alive =>
         /\ current_category # None => Has(data, current_category)
         /\ current_template # None =>
               /\ current_category # None
               /\ HasTemplate(data, current_category, current_template)
    /\ last.op \in {"delete_template", "rename_template"} => last.outcome # "KeyError"

\* new_template in the second category, of a name the first category holds
\* too, has left the first category and its template of that name selected.
C11_witness ==
    /\ alive
    /\ last.op = "new_template"
    /\ last.outcome = "ok"
    /\ last.category = "Work"
    /\ current_category = "General"
    /\ current_template = last.name
    /\ HasTemplate(data, "General", last.name)
    /\ HasTemplate(data, "Work", last.name)

\* C12: 'Delete Template' chosen in the context menu of item j of the shown
\* list and confirmed removes from the shown category the template that the
\* item names, and nothing else (stated for the deletions whose write does
\* not fail).
C12_context_menu_deletes_item ==
    [][\A j \in DOMAIN CurrentItems :
          (show_template_context_menu(j, "delete", "", TRUE) /\ last'.outcome = "ok")
          => data' = DelBody(data, tabs[tabIndex + 1].text, CurrentItems[j])]_vars

====
